---- MODULE Spec2Model ----
(***************************************************************************)
(* ExtHostSearch (src/vs/workbench/api/node/extHostSearch.ts): the         *)
(* extension-host side of the search-provider dispatcher.  The state is    *)
(* the provider registry (three handle maps, the internal slot, the handle *)
(* pool), the disposables handed out by the register calls, the calls      *)
(* made on the main-thread proxy, and the requests in flight.              *)
(***************************************************************************)
EXTENDS Integers, Sequences, FiniteSets, TLC

\* ---- bounds of the exploration ----
MaxRegistrations == 2
MaxDisposeCalls == 2
MaxRequests == 2
MaxEvents == 3
MaxClearCaches == 1
MaxFolders == 2

\* ---- values ----
Undefined == "undefined"
Null == "null"
TypeError == "TypeError"

\* Provider objects the extension side hands to the register calls: a new object for
\* every call, with or without a provideTextSearchResults member.
WithTextSearch == <<"p1", "p2", "p3", "p4", "p5", "p6", "p7", "p8">>

WithoutTextSearch == <<"q1", "q2", "q3", "q4", "q5", "q6", "q7", "q8">>

\* The providers the constructor registers when search runs in the extension host.
RipgrepSearchProvider == "rg"

SearchService == "svc"

\* Whether a text provider object carries a provideTextSearchResults member.
HasProvideTextSearchResults(p) ==
    \/ p = RipgrepSearchProvider
    \/ \E i \in 1..Len(WithTextSearch) : p = WithTextSearch[i]

\* What a scheme transformer's transformOutgoing returns.
TransformOutgoing(scheme) == "vscode-remote"

Schemes == {"file"}

VARIABLES
    handlePool,                 \* _handlePool
    textSearchProvider,         \* _textSearchProvider : Map<number, provider>
    fileSearchProvider,         \* _fileSearchProvider
    fileIndexProvider,          \* _fileIndexProvider
    internalFileSearchHandle,   \* _internalFileSearchHandle
    internalFileSearchProvider, \* _internalFileSearchProvider
    schemeTransformer,          \* _schemeTransformer (constructor argument)
    disposables,                \* the IDisposables returned by register*, in order
    proxy,                      \* calls made on MainThreadSearchShape, in order
    logService,                 \* messages passed to _logService.debug, in order
    requests,                   \* $provide*SearchResults calls, in order of arrival
    emitted,                    \* number of provider/engine events so far
    cacheCleared,               \* clearCache calls made on the providers' caches, in order
    revival,                    \* the last query revived: raw query and revived query
    limits                      \* how far this run is explored

vars == <<handlePool, textSearchProvider, fileSearchProvider, fileIndexProvider,
          internalFileSearchHandle, internalFileSearchProvider, schemeTransformer,
          disposables, proxy, logService, requests, emitted, cacheCleared, revival,
          limits>>

\* What the request and stream handlers never write.
aside == <<cacheCleared, revival>>

registry == <<handlePool, textSearchProvider, fileSearchProvider, fileIndexProvider,
              internalFileSearchHandle, internalFileSearchProvider, schemeTransformer,
              disposables, limits>>

\* ---- Map<number, T> ----
EmptyMap == [h \in {} |-> Undefined]

MapHas(m, h) == h \in DOMAIN m

MapGet(m, h) == IF h \in DOMAIN m THEN m[h] ELSE Undefined

MapSet(m, h, p) == [x \in (DOMAIN m) \cup {h} |-> IF x = h THEN p ELSE m[x]]

MapDelete(m, h) == [x \in (DOMAIN m) \ {h} |-> m[x]]

\* ---- URIs ----
\* URI.file(path): a file-scheme resource for a filesystem path.
URIFile(path) == [scheme |-> "file", path |-> path]

\* URI.revive(components): the URI object of transport-safe components.
URIRevive(c) == [scheme |-> c.scheme, path |-> c.path, fsPath |-> c.path]

SeqMap(f(_), s) == [i \in 1..Len(s) |-> f(s[i])]

\* ---- the main-thread proxy ----
ProxyCall(call, handle, session, scheme, data) ==
    [call |-> call, handle |-> handle, session |-> session, scheme |-> scheme, data |-> data]

TransformScheme(scheme) ==
    IF schemeTransformer # Null THEN TransformOutgoing(scheme) ELSE scheme

NoSession == 0

\* _internalFileSearchHandle before any internal registration (never equal to a handle).
NoHandle == -1

\* ---- registration ----
NextHandlePoolStuck(pool) == pool

NextHandlePoolWraps(pool) == (pool + 1) % 2

\* handle = this._handlePool++ : the pool after the allocation.
NextHandlePool(pool) == pool + 1

Disposable(handle, kind, provider, owned) ==
    [handle |-> handle, kind |-> kind, provider |-> provider, calls |-> 0, owned |-> owned]

\* The registrations made after construction, through the returned disposables.
Owned == {i \in 1..Len(disposables) : disposables[i].owned}

CanRegister == Cardinality(Owned) < limits.registrations

registerTextSearchProvider(scheme, provider) ==
    /\ CanRegister
    /\ LET handle == handlePool IN
        /\ handlePool' = NextHandlePool(handlePool)
        /\ textSearchProvider' = MapSet(textSearchProvider, handle, provider)
        /\ proxy' = Append(proxy, ProxyCall("$registerTextSearchProvider", handle, NoSession,
                                            TransformScheme(scheme), <<>>))
        /\ disposables' = Append(disposables, Disposable(handle, "text", provider, TRUE))
    /\ UNCHANGED <<fileSearchProvider, fileIndexProvider, internalFileSearchHandle,
                   internalFileSearchProvider, schemeTransformer, logService, requests, emitted, limits, aside>>

registerFileSearchProvider(scheme, provider) ==
    /\ CanRegister
    /\ LET handle == handlePool IN
        /\ handlePool' = NextHandlePool(handlePool)
        /\ fileSearchProvider' = MapSet(fileSearchProvider, handle, provider)
        /\ proxy' = Append(proxy, ProxyCall("$registerFileSearchProvider", handle, NoSession,
                                            TransformScheme(scheme), <<>>))
        /\ disposables' = Append(disposables, Disposable(handle, "file", provider, TRUE))
    /\ UNCHANGED <<textSearchProvider, fileIndexProvider, internalFileSearchHandle,
                   internalFileSearchProvider, schemeTransformer, logService, requests, emitted, limits, aside>>

registerInternalFileSearchProvider(scheme, provider) ==
    /\ CanRegister
    /\ LET handle == handlePool IN
        /\ handlePool' = NextHandlePool(handlePool)
        /\ internalFileSearchProvider' = provider
        /\ internalFileSearchHandle' = handle
        /\ proxy' = Append(proxy, ProxyCall("$registerFileSearchProvider", handle, NoSession,
                                            TransformScheme(scheme), <<>>))
        /\ disposables' = Append(disposables, Disposable(handle, "internal", provider, TRUE))
    /\ UNCHANGED <<textSearchProvider, fileSearchProvider, fileIndexProvider,
                   schemeTransformer, logService, requests, emitted, limits, aside>>

registerFileIndexProvider(scheme, provider) ==
    /\ CanRegister
    /\ LET handle == handlePool IN
        /\ handlePool' = NextHandlePool(handlePool)
        /\ fileIndexProvider' = MapSet(fileIndexProvider, handle, provider)
        /\ proxy' = Append(proxy, ProxyCall("$registerFileIndexProvider", handle, NoSession,
                                            TransformScheme(scheme), <<>>))
        /\ disposables' = Append(disposables, Disposable(handle, "index", provider, TRUE))
    /\ UNCHANGED <<textSearchProvider, fileSearchProvider, internalFileSearchHandle,
                   internalFileSearchProvider, schemeTransformer, logService, requests, emitted, limits, aside>>

\* ---- the disposers returned by the register calls ----
\* toDisposable(fn).dispose() runs fn on every call.
RECURSIVE SumCalls(_)
SumCalls(ds) == IF ds = <<>> THEN 0 ELSE Head(ds).calls + SumCalls(Tail(ds))

disposeCalls == SumCalls(disposables)

CanDispose(i) ==
    /\ i \in 1..Len(disposables)
    /\ disposables[i].owned
    /\ disposeCalls < limits.disposeCalls

Unregister(i) ==
    /\ proxy' = Append(proxy, ProxyCall("$unregisterProvider", disposables[i].handle,
                                        NoSession, "", <<>>))
    /\ disposables' = [disposables EXCEPT ![i].calls = @ + 1]

disposeTextSearchProvider(i) ==
    /\ CanDispose(i)
    /\ disposables[i].kind = "text"
    /\ textSearchProvider' = MapDelete(textSearchProvider, disposables[i].handle)
    /\ Unregister(i)
    /\ UNCHANGED <<handlePool, fileSearchProvider, fileIndexProvider, internalFileSearchHandle,
                   internalFileSearchProvider, schemeTransformer, logService, requests, emitted, limits, aside>>

disposeFileSearchProvider(i) ==
    /\ CanDispose(i)
    /\ disposables[i].kind = "file"
    /\ fileSearchProvider' = MapDelete(fileSearchProvider, disposables[i].handle)
    /\ Unregister(i)
    /\ UNCHANGED <<handlePool, textSearchProvider, fileIndexProvider, internalFileSearchHandle,
                   internalFileSearchProvider, schemeTransformer, logService, requests, emitted, limits, aside>>

disposeInternalFileSearchProvider(i) ==
    /\ CanDispose(i)
    /\ disposables[i].kind = "internal"
    /\ internalFileSearchProvider' = Null
    /\ Unregister(i)
    /\ UNCHANGED <<handlePool, textSearchProvider, fileSearchProvider, fileIndexProvider,
                   internalFileSearchHandle, schemeTransformer, logService, requests, emitted, limits, aside>>

\* The disposer of a file-index registration deletes from _fileSearchProvider.
disposeFileIndexProvider(i) ==
    /\ CanDispose(i)
    /\ disposables[i].kind = "index"
    /\ fileSearchProvider' = MapDelete(fileSearchProvider, disposables[i].handle)
    /\ Unregister(i)
    /\ UNCHANGED <<handlePool, textSearchProvider, fileIndexProvider, internalFileSearchHandle,
                   internalFileSearchProvider, schemeTransformer, logService, requests, emitted, limits, aside>>

\* ---- construction ----
\* registerEHProviders: with searchRipgrep.enable or search.runInExtensionHost the
\* constructor registers the ripgrep text provider and the internal file search
\* provider and drops the two disposables.
InitNoEHProviders ==
    /\ handlePool = 0
    /\ textSearchProvider = EmptyMap
    /\ internalFileSearchHandle = NoHandle
    /\ internalFileSearchProvider = Undefined
    /\ disposables = <<>>
    /\ proxy = <<>>

InitEHProviders ==
    /\ handlePool = 2
    /\ textSearchProvider = MapSet(EmptyMap, 0, RipgrepSearchProvider)
    /\ internalFileSearchHandle = 1
    /\ internalFileSearchProvider = SearchService
    /\ disposables = <<Disposable(0, "text", RipgrepSearchProvider, FALSE),
                       Disposable(1, "internal", SearchService, FALSE)>>
    /\ proxy = <<ProxyCall("$registerTextSearchProvider", 0, NoSession, TransformScheme("file"), <<>>),
                 ProxyCall("$registerFileSearchProvider", 1, NoSession, TransformScheme("file"), <<>>)>>

\* A run explores one of: registry churn, one request's stream or
\* concurrent requests' streams over the registry the constructor left, or one
\* registration with one request's stream, or one registration with cache clears.
Limits(nregistrations, ndisposeCalls, nrequests, nevents, nclearCaches) ==
    [registrations |-> nregistrations, disposeCalls |-> ndisposeCalls,
     requests |-> nrequests, events |-> nevents, clearCaches |-> nclearCaches]

Scenarios ==
    { Limits(MaxRegistrations, MaxDisposeCalls, 0, 0, 0),
      Limits(0, 0, 1, MaxEvents, 0),
      Limits(0, 0, MaxRequests, MaxEvents - 1, 0),
      Limits(1, 1, 1, MaxEvents - 1, 0),
      Limits(1, 1, 0, 0, MaxClearCaches) }

\* ---- queries ----
\* UriComponents as they cross the wire.
Components ==
    { [scheme |-> "file", path |-> "/a"], [scheme |-> "vscode-remote", path |-> "/b"] }

\* A raw folder query: the folder as UriComponents, and the folder's other options.
RawFolderQueries ==
    [folder : Components, excludePattern : {"", "*.js"}]

RECURSIVE SeqsUpTo(_, _)
SeqsUpTo(S, n) ==
    IF n = 0 THEN {<<>>}
    ELSE LET shorter == SeqsUpTo(S, n - 1) IN
         shorter \cup {Append(q, x) : q \in shorter, x \in S}

\* A raw query: folderQueries and extraFileResources are optional (has* tells whether
\* the member is there), the other members are carried as they are.
RawQuery(hasFolderQueries, folderQueries, hasExtraFileResources, extraFileResources, filePattern) ==
    [hasFolderQueries |-> hasFolderQueries, folderQueries |-> folderQueries,
     hasExtraFileResources |-> hasExtraFileResources,
     extraFileResources |-> extraFileResources, filePattern |-> filePattern]

reviveFolderQueryKeepsRaw(rawFolderQuery) == rawFolderQuery

\* { ...rawFolderQuery, folder: URI.revive(rawFolderQuery.folder) }
reviveFolderQuery(rawFolderQuery) ==
    [rawFolderQuery EXCEPT !.folder = URIRevive(@)]

\* { ...rawQuery, folderQueries: rawQuery.folderQueries && ...map(reviveFolderQuery),
\*   extraFileResources: rawQuery.extraFileResources && ...map(URI.revive) }
reviveQuery(rawQuery) ==
    [rawQuery EXCEPT
        !.folderQueries = IF rawQuery.hasFolderQueries
                          THEN SeqMap(reviveFolderQuery, @) ELSE @,
        !.extraFileResources = IF rawQuery.hasExtraFileResources
                               THEN SeqMap(URIRevive, @) ELSE @]

Revival(done, rawQuery) == [done |-> done, raw |-> rawQuery, revived |-> reviveQuery(rawQuery)]

NoRevival == Revival(FALSE, RawQuery(FALSE, <<>>, FALSE, <<>>, ""))

Init ==
    /\ limits \in Scenarios
    /\ schemeTransformer \in {Null}
    /\ fileSearchProvider = EmptyMap
    /\ fileIndexProvider = EmptyMap
    /\ logService = <<>>
    /\ requests = <<>>
    /\ emitted = 0
    /\ cacheCleared = <<>>
    /\ revival = NoRevival
    /\ (InitNoEHProviders \/ InitEHProviders)

\* The raw queries of the requests: without and with folderQueries.
RawQueries ==
    { RawQuery(FALSE, <<>>, FALSE, <<>>, ""),
      RawQuery(TRUE, <<[folder |-> [scheme |-> "file", path |-> "/w"], excludePattern |-> ""]>>,
               FALSE, <<>>, "") }

\* ---- events of a provider's output stream ----
Ev(type, val) == [type |-> type, val |-> val]

NoResult == Ev("none", <<>>)

UndefinedResult == Ev("undefined", <<>>)

TypeErrorResult == Ev(TypeError, <<>>)

\* What the internal engine (SearchService.fileSearch) can fire at its listener.
InternalEvents ==
    { Ev("success", <<"stats">>), Ev("error", <<"failed">>),
      Ev("match", <<"a">>),
      Ev("array", <<"b", "c">>),
      Ev("message", <<"m">>) }

isSerializedSearchComplete(ev) == ev.type \in {"success", "error"}

isSerializedSearchSuccess(ev) == ev.type = "success"

isSerializedFileMatch(ev) == ev.type = "match"

IsArrayOrMessage(ev) == ev.type \in {"array", "message"}

\* Array.isArray(ev)
IsArray(ev) == ev.type = "array"

HasMessage(ev) == ev.type = "message" /\ ev.val # <<>>

\* ---- requests ----
SettleAgain(req, state, result) == [req EXCEPT !.state = state, !.result = result]

\* The promise of a request: resolve and reject act on a pending promise only.
Settle(req, state, result) ==
    IF req.state = "pending"
    THEN [req EXCEPT !.state = state, !.result = result]
    ELSE req

Request(kind, handle, session, engine, provider, started, state, result) ==
    [kind |-> kind, handle |-> handle, session |-> session, engine |-> engine,
     provider |-> provider, started |-> started, state |-> state, result |-> result,
     cancelled |-> FALSE, events |-> <<>>]

MatchCallSwapsIds(call, req, data) == ProxyCall(call, req.session, req.handle, "", data)

\* this._proxy.$handleFileMatch(handle, session, ...) / $handleTextMatch(handle, session, ...)
\* with the handle and session of the request the callback was made for.
MatchCall(call, req, data) == ProxyCall(call, req.handle, req.session, "", data)

CanRequest == Len(requests) < limits.requests

\* The handles a request can name: allocated ones and the next one.
Handles == 0..handlePool

\* The session id the main thread gives to its next request.
NextSession == Len(requests) + 1

\* $provideFileSearchResults: which engine serves the handle, with which provider.
FileDispatch(handle) ==
    IF handle = internalFileSearchHandle
    THEN [engine |-> "internal", provider |-> internalFileSearchProvider]
    ELSE IF MapGet(fileSearchProvider, handle) # Undefined
         THEN [engine |-> "fileSearch", provider |-> MapGet(fileSearchProvider, handle)]
         ELSE [engine |-> "fileIndex", provider |-> MapGet(fileIndexProvider, handle)]

\* doInternalFileSearch up to the subscription: the promise executor throws, and the
\* promise is rejected, when the query has no folderQueries or the provider slot is null.
doInternalFileSearch(handle, session, query) ==
    IF query.hasFolderQueries /\ internalFileSearchProvider \notin {Null, Undefined}
    THEN Request("file", handle, session, "internal", internalFileSearchProvider,
                 TRUE, "pending", NoResult)
    ELSE Request("file", handle, session, "internal", internalFileSearchProvider,
                 FALSE, "rejected", TypeErrorResult)

provideFileSearchResults(handle, rawQuery) ==
    /\ CanRequest
    /\ LET session == NextSession
           query == reviveQuery(rawQuery)
           d == FileDispatch(handle)
       IN requests' = Append(requests,
              IF d.engine = "internal"
              THEN doInternalFileSearch(handle, session, query)
              ELSE Request("file", handle, session, d.engine, d.provider,
                           TRUE, "pending", NoResult))
    /\ UNCHANGED <<registry, aside, proxy, logService, emitted>>

InternalDeliveryDropsSingle(ev) ==
    IF isSerializedFileMatch(ev) THEN <<>> ELSE SeqMap(URIFile, ev.val)

\* The listener doInternalFileSearch attaches to the engine's event, run on one event.
\* ev = [ev] for a single match, then ev.map(m => URI.file(m.path)).
InternalDelivery(ev) ==
    IF isSerializedFileMatch(ev) THEN <<URIFile(ev.val[1])>>
    ELSE SeqMap(URIFile, ev.val)

TerminalOutcomeAlwaysResolves(ev) == "resolved"

\* if (isSerializedSearchSuccess(ev)) resolve(ev) else reject(ev)
TerminalOutcome(ev) ==
    IF isSerializedSearchSuccess(ev) THEN "resolved" ELSE "rejected"

onInternalEvent(r, ev) ==
    /\ r \in 1..Len(requests)
    /\ requests[r].engine = "internal"
    /\ requests[r].started
    /\ emitted < limits.events
    /\ emitted' = emitted + 1
    /\ LET req == [requests[r] EXCEPT !.events = Append(@, ev)] IN
        IF isSerializedSearchComplete(ev)
        THEN /\ requests' = [requests EXCEPT ![r] = Settle(req, TerminalOutcome(ev), ev)]
             /\ UNCHANGED <<proxy, logService>>
        ELSE IF isSerializedFileMatch(ev) \/ IsArray(ev)
        THEN /\ proxy' = Append(proxy, MatchCall("$handleFileMatch", req, InternalDelivery(ev)))
             /\ requests' = [requests EXCEPT ![r] = req]
             /\ UNCHANGED logService
        ELSE /\ logService' = IF HasMessage(ev) THEN Append(logService, ev.val[1])
                                                ELSE logService
             /\ requests' = [requests EXCEPT ![r] = req]
             /\ UNCHANGED proxy
    /\ UNCHANGED <<registry, aside>>

\* The cancellation token of a pending request is cancelled by the caller.
cancel(r) ==
    /\ r \in 1..Len(requests)
    /\ requests[r].state = "pending"
    /\ ~requests[r].cancelled
    /\ requests' = [requests EXCEPT ![r].cancelled = TRUE]
    /\ UNCHANGED <<registry, aside, proxy, logService, emitted>>

\* ---- text search ----
LacksTextSearchUnchecked(provider) == FALSE

\* if (!provider.provideTextSearchResults) on a provider object.
LacksTextSearch(provider) == ~HasProvideTextSearchResults(provider)

\* $provideTextSearchResults: reading a member of an absent provider throws; a provider
\* without the member resolves undefined; otherwise a TextSearchManager is driven.
provideTextSearchResults(handle, rawQuery) ==
    /\ CanRequest
    /\ LET session == NextSession
           provider == MapGet(textSearchProvider, handle)
       IN requests' = Append(requests,
              IF provider = Undefined
              THEN Request("text", handle, session, "none", provider,
                           FALSE, "threw", TypeErrorResult)
              ELSE IF LacksTextSearch(provider)
              THEN Request("text", handle, session, "none", provider,
                           FALSE, "resolved", UndefinedResult)
              ELSE Request("text", handle, session, "text", provider,
                           TRUE, "pending", NoResult))
    /\ UNCHANGED <<registry, aside, proxy, logService, emitted>>

\* ---- the engines behind the manager calls ----
\* FileSearchManager, FileIndexSearchManager and TextSearchManager produce batches
\* through the callback they are given, stop producing once the token is cancelled,
\* and settle the promise they returned.
Batches == { <<[resource |-> URIFile("a")]>> }

Resource(p) == p.resource

Producing(r, engine) ==
    /\ r \in 1..Len(requests)
    /\ requests[r].engine = engine
    /\ requests[r].provider # Undefined
    /\ requests[r].state = "pending"
    /\ ~requests[r].cancelled
    /\ emitted < limits.events

\* batch => this._proxy.$handleFileMatch(handle, session, batch.map(p => p.resource))
onFileSearchBatch(r, batch) ==
    /\ Producing(r, "fileSearch")
    /\ emitted' = emitted + 1
    /\ proxy' = Append(proxy, MatchCall("$handleFileMatch", requests[r],
                                        SeqMap(Resource, batch)))
    /\ requests' = [requests EXCEPT ![r].events = Append(@, Ev("batch", <<"a">>))]
    /\ UNCHANGED <<registry, aside, logService>>

onFileIndexBatch(r, batch) ==
    /\ Producing(r, "fileIndex")
    /\ emitted' = emitted + 1
    /\ proxy' = Append(proxy, MatchCall("$handleFileMatch", requests[r],
                                        SeqMap(Resource, batch)))
    /\ requests' = [requests EXCEPT ![r].events = Append(@, Ev("batch", <<"a">>))]
    /\ UNCHANGED <<registry, aside, logService>>

\* progress => this._proxy.$handleTextMatch(handle, session, progress)
onTextProgress(r, progress) ==
    /\ Producing(r, "text")
    /\ emitted' = emitted + 1
    /\ proxy' = Append(proxy, MatchCall("$handleTextMatch", requests[r], <<progress>>))
    /\ requests' = [requests EXCEPT ![r].events = Append(@, Ev("progress", <<"a">>))]
    /\ UNCHANGED <<registry, aside, logService>>

ManagerDriven(r) ==
    /\ r \in 1..Len(requests)
    /\ requests[r].engine \in {"fileSearch", "fileIndex", "text"}
    /\ requests[r].state = "pending"

\* The engine ends: with statistics, or with the cancelled outcome once the token is
\* cancelled.
managerComplete(r) ==
    /\ ManagerDriven(r)
    /\ requests[r].provider # Undefined
    /\ requests' = [requests EXCEPT ![r] =
            Settle(@, "resolved", IF @.cancelled THEN Ev("cancelled", <<>>)
                                                 ELSE Ev("success", <<"stats">>))]
    /\ UNCHANGED <<registry, aside, proxy, logService, emitted>>

\* The engine fails: the provider threw, or the engine was handed no provider.
managerFail(r) ==
    /\ ManagerDriven(r)
    /\ requests[r].provider = Undefined \/ ~requests[r].cancelled
    /\ requests' = [requests EXCEPT ![r] =
            Settle(@, "rejected", IF @.provider = Undefined THEN TypeErrorResult
                                                            ELSE Ev("error", <<"failed">>))]
    /\ UNCHANGED <<registry, aside, proxy, logService, emitted>>

\* ---- cache invalidation ----
CacheCall(target, provider, cacheKey) ==
    [target |-> target, provider |-> provider, key |-> cacheKey]

FileIndexSearchManager == "fileIndexSearchManager"

ClearCacheCalls == Len(SelectSeq(cacheCleared, LAMBDA c : c.target = "index"))

\* $clearCache: the internal provider when the slot holds one, then the index manager.
clearCache(cacheKey) ==
    /\ ClearCacheCalls < limits.clearCaches
    /\ cacheCleared' =
            (IF internalFileSearchProvider \notin {Null, Undefined}
             THEN Append(cacheCleared, CacheCall("internal", internalFileSearchProvider, cacheKey))
             ELSE cacheCleared)
            \o <<CacheCall("index", FileIndexSearchManager, cacheKey)>>
    /\ UNCHANGED <<registry, revival, proxy, logService, requests, emitted>>

CacheKeys == {"key-A", "key-B"}

\* ---- the program ----
\* The object handed to the next register call.
NewProvider == WithTextSearch[Len(disposables) + 1]

NewProviders == {NewProvider, WithoutTextSearch[Len(disposables) + 1]}

Next ==
    \/ \E scheme \in Schemes, provider \in NewProviders :
            registerTextSearchProvider(scheme, provider)
    \/ \E scheme \in Schemes : registerFileSearchProvider(scheme, NewProvider)
    \/ \E scheme \in Schemes : registerInternalFileSearchProvider(scheme, NewProvider)
    \/ \E scheme \in Schemes : registerFileIndexProvider(scheme, NewProvider)
    \/ \E i \in 1..Len(disposables) : disposeTextSearchProvider(i)
    \/ \E i \in 1..Len(disposables) : disposeFileSearchProvider(i)
    \/ \E i \in 1..Len(disposables) : disposeInternalFileSearchProvider(i)
    \/ \E i \in 1..Len(disposables) : disposeFileIndexProvider(i)
    \/ \E handle \in Handles, rawQuery \in RawQueries :
            provideFileSearchResults(handle, rawQuery)
    \/ \E handle \in Handles, rawQuery \in RawQueries :
            provideTextSearchResults(handle, rawQuery)
    \/ \E r \in 1..Len(requests), ev \in InternalEvents : onInternalEvent(r, ev)
    \/ \E r \in 1..Len(requests), batch \in Batches : onFileSearchBatch(r, batch)
    \/ \E r \in 1..Len(requests), batch \in Batches : onFileIndexBatch(r, batch)
    \/ \E r \in 1..Len(requests) : onTextProgress(r, URIFile("a"))
    \/ \E r \in 1..Len(requests) : managerComplete(r)
    \/ \E r \in 1..Len(requests) : managerFail(r)
    \/ \E r \in 1..Len(requests) : cancel(r)
    \/ \E cacheKey \in CacheKeys : clearCache(cacheKey)

Spec == Init /\ [][Next]_vars

\* ---- query revival on its own ----
\* The raw queries a $provide*SearchResults call can carry.
RevivalInputs ==
    { RawQuery(hasFolderQueries, folderQueries, hasExtraFileResources, extraFileResources,
               filePattern) :
        hasFolderQueries \in BOOLEAN,
        folderQueries \in SeqsUpTo(RawFolderQueries, MaxFolders),
        hasExtraFileResources \in BOOLEAN,
        extraFileResources \in SeqsUpTo(Components, 1),
        filePattern \in {"", "*.ts"} }

WellFormed(rawQuery) ==
    /\ ~rawQuery.hasFolderQueries => rawQuery.folderQueries = <<>>
    /\ ~rawQuery.hasExtraFileResources => rawQuery.extraFileResources = <<>>

\* const query = reviveQuery(rawQuery) of a $provide*SearchResults call.
revive(rawQuery) ==
    /\ WellFormed(rawQuery)
    /\ revival' = Revival(TRUE, rawQuery)
    /\ UNCHANGED <<registry, cacheCleared, proxy, logService, requests, emitted>>

ReviveInit ==
    /\ limits = Limits(0, 0, 0, 0, 0)
    /\ schemeTransformer = Null
    /\ fileSearchProvider = EmptyMap
    /\ fileIndexProvider = EmptyMap
    /\ logService = <<>>
    /\ requests = <<>>
    /\ emitted = 0
    /\ cacheCleared = <<>>
    /\ revival = NoRevival
    /\ InitNoEHProviders

ReviveNext == \E rawQuery \in RevivalInputs : revive(rawQuery)

ReviveSpec == ReviveInit /\ [][ReviveNext]_vars

\* The engines behind the manager calls run to an end; the internal engine and the
\* callers are under no obligation.
LiveSpec == Spec /\ WF_vars(\E r \in 1..MaxRequests : managerComplete(r) \/ managerFail(r))

\* ---- what the peer received for a request ----
IsMatchOf(c, call, r) ==
    /\ c.call = call
    /\ c.handle = requests[r].handle
    /\ c.session = requests[r].session

FileMatches(r) == SelectSeq(proxy, LAMBDA c : IsMatchOf(c, "$handleFileMatch", r))

TextMatches(r) == SelectSeq(proxy, LAMBDA c : IsMatchOf(c, "$handleTextMatch", r))

Requests == 1..Len(requests)

InternalStream(r) == requests[r].engine = "internal" /\ requests[r].started

Terminals(evs) == {i \in 1..Len(evs) : evs[i].type \in {"success", "error"}}

Min(S) == CHOOSE x \in S : \A y \in S : x <= y

\* ---- C1 ----
\* C1: the promise of an internal file search is pending until the engine's first
\* terminal event and from then on carries that event's outcome (resolved for a
\* success, rejected for an error), whatever events follow, later terminals included.
C1_SettledOnceByFirstTerminal ==
    \A r \in Requests : InternalStream(r) =>
        LET evs == requests[r].events
            terms == Terminals(evs)
        IN IF terms = {}
           THEN requests[r].state = "pending" /\ requests[r].result = NoResult
           ELSE LET first == evs[Min(terms)] IN
                /\ requests[r].state = IF first.type = "success" THEN "resolved" ELSE "rejected"
                /\ requests[r].result = first

\* A stream with two terminal events of different kinds.
C1_Witness ==
    \E r \in Requests :
        /\ InternalStream(r)
        /\ \E i, j \in Terminals(requests[r].events) :
                i < j /\ requests[r].events[i].type # requests[r].events[j].type

\* ---- C2 ----
\* C2: once a file-search request is settled, no further $handleFileMatch is made for
\* its (handle, session).
C2_NoMatchAfterCompletion ==
    [][\A r \in Requests :
            (requests[r].kind = "file" /\ requests[r].state # "pending")
                => FileMatches(r)' = FileMatches(r)]_vars

\* ---- C3 ----
\* What a request for a handle is served by, per request kind.
ResolveText(handle) == MapGet(textSearchProvider, handle)

ResolveFile(handle) == FileDispatch(handle).provider

Absent(provider) == provider \in {Undefined, Null}

EngineOfKind(kind) ==
    CASE kind = "internal" -> "internal"
      [] kind = "file" -> "fileSearch"
      [] kind = "index" -> "fileIndex"
      [] OTHER -> "text"

\* C3: a handle whose disposer has not run resolves to the provider registered under
\* it (through the engine of its kind); a handle whose disposer has run resolves to no
\* provider, for file-search and for text-search requests.
C3_ResolveFollowsRegistration ==
    \A i \in 1..Len(disposables) :
        LET d == disposables[i] IN
        IF d.calls = 0
        THEN IF d.kind = "text"
             THEN ResolveText(d.handle) = d.provider
             ELSE /\ FileDispatch(d.handle).engine = EngineOfKind(d.kind)
                  /\ ResolveFile(d.handle) = d.provider
        ELSE Absent(ResolveText(d.handle)) /\ Absent(ResolveFile(d.handle))

\* ---- C4 ----
\* C4: a file-search request whose handle is not the internal handle and is in neither
\* file map is rejected as provider-not-found and starts no engine.
C4_UnknownHandleRejected ==
    \A r \in Requests :
        (requests[r].kind = "file" /\ requests[r].engine # "internal"
            /\ requests[r].provider = Undefined)
        => /\ requests[r].state = "rejected"
           /\ requests[r].result.type = "providerNotFound"
           /\ ~requests[r].started

\* ---- C5 ----
\* C5: a text-search request whose handle has no text provider resolves at once with
\* undefined and raises no error.
C5_AbsentTextProviderResolves ==
    \A r \in Requests :
        (requests[r].kind = "text" /\ requests[r].provider = Undefined)
        => requests[r].state = "resolved" /\ requests[r].result = UndefinedResult

\* ---- C6 ----
LacksCapability(r) ==
    /\ requests[r].kind = "text"
    /\ requests[r].provider # Undefined
    /\ ~HasProvideTextSearchResults(requests[r].provider)

\* C6: a text-search request against a registered provider without
\* provideTextSearchResults is resolved with undefined from the start, has no engine,
\* and no $handleTextMatch is ever made for its (handle, session).
C6_NoCapabilityResolvesUndefined ==
    \A r \in Requests : LacksCapability(r) =>
        /\ requests[r].state = "resolved"
        /\ requests[r].result = UndefinedResult
        /\ requests[r].engine = "none"
        /\ ~requests[r].started
        /\ TextMatches(r) = <<>>

C6_Witness == \E r \in Requests : LacksCapability(r) /\ requests[r].state = "resolved"

\* ---- C7 ----
\* C7: a file-search request whose token is cancelled while it is in flight is
\* eventually settled.
C7_CancelledSettles ==
    \A r \in 1..MaxRequests :
        (r \in Requests /\ requests[r].kind = "file" /\ requests[r].cancelled)
            ~> (r \in Requests /\ requests[r].state # "pending")

\* ---- C8 ----
\* C8: a file-search request that has delivered a batch and whose token is cancelled
\* makes no further $handleFileMatch for its (handle, session).
C8_NoMatchAfterCancel ==
    [][\A r \in Requests :
            (requests[r].kind = "file" /\ requests[r].cancelled /\ Len(FileMatches(r)) >= 1)
                => FileMatches(r)' = FileMatches(r)]_vars

\* ---- C9 ----
IsMatchEvent(ev) == ev.type \in {"match", "array"}

\* match events only, then possibly one success as the last event
MatchesThenSuccess(evs) ==
    \A i \in 1..Len(evs) : IsMatchEvent(evs[i]) \/ (i = Len(evs) /\ evs[i].type = "success")

MatchEvents(evs) == SelectSeq(evs, IsMatchEvent)

\* The resources the peer is owed for a match event: one per path, in order.
Owed(ev) == [i \in 1..Len(ev.val) |-> [scheme |-> "file", path |-> ev.val[i]]]

\* C9: while the internal engine has emitted match events b1..bn only, the peer has
\* received exactly their n batches in order and the request is pending; when a success
\* event has followed, the peer still has exactly those n batches and the request is
\* resolved with that event.
C9_BatchesInOrderThenSuccess ==
    \A r \in Requests : (InternalStream(r) /\ MatchesThenSuccess(requests[r].events)) =>
        LET evs == requests[r].events
            ms == MatchEvents(evs)
            got == FileMatches(r)
        IN /\ Len(got) = Len(ms)
           /\ \A i \in 1..Len(ms) : got[i].data = Owed(ms[i])
           /\ IF Len(ms) = Len(evs)
              THEN requests[r].state = "pending"
              ELSE requests[r].state = "resolved" /\ requests[r].result = evs[Len(evs)]

\* Two different batches, then success.
C9_Witness ==
    \E r \in Requests :
        /\ InternalStream(r)
        /\ MatchesThenSuccess(requests[r].events)
        /\ Len(requests[r].events) = 3
        /\ requests[r].events[1] # requests[r].events[2]
        /\ requests[r].state = "resolved"
        /\ Len(FileMatches(r)) = 2

\* ---- C10 ----
\* C10: the handles of the registrations, in registration order, are strictly
\* increasing, and the pool is above all of them: no handle is shared or given again,
\* also not after it was unregistered.
C10_HandlesStrictlyIncrease ==
    /\ \A i, j \in 1..Len(disposables) :
            i < j => disposables[i].handle < disposables[j].handle
    /\ \A i \in 1..Len(disposables) : disposables[i].handle < handlePool

\* A registration made after an unregistration.
C10_Witness ==
    \E i, j \in 1..Len(proxy) :
        /\ i < j
        /\ proxy[i].call = "$unregisterProvider"
        /\ proxy[j].call \in {"$registerTextSearchProvider", "$registerFileSearchProvider",
                              "$registerFileIndexProvider"}

\* ---- C11 ----
\* The internal slot holds a handle while it holds a provider.
InInternalSlot(h) ==
    h = internalFileSearchHandle /\ ~Absent(internalFileSearchProvider)

KindsHolding(h) ==
    {k \in {"text", "file", "index", "internal"} :
        \/ k = "text" /\ MapHas(textSearchProvider, h)
        \/ k = "file" /\ MapHas(fileSearchProvider, h)
        \/ k = "index" /\ MapHas(fileIndexProvider, h)
        \/ k = "internal" /\ InInternalSlot(h)}

HeldHandles ==
    (DOMAIN textSearchProvider) \cup (DOMAIN fileSearchProvider)
        \cup (DOMAIN fileIndexProvider) \cup {internalFileSearchHandle}

\* C11: every handle is in at most one of the text map, the file-name map, the
\* file-index map and the internal slot.
C11_HandleInOneKind ==
    \A h \in HeldHandles : Cardinality(KindsHolding(h)) <= 1

\* Handles of three different kinds are held at once.
C11_Witness ==
    Cardinality(UNION {KindsHolding(h) : h \in HeldHandles}) >= 3

\* ---- C12 ----
\* C12: a dispose call on a registration whose disposer has already run changes no
\* provider map, not the internal slot, and makes no call on the peer.
C12_SecondDisposeIsNoOp ==
    [][\A i \in 1..Len(disposables) :
            (disposables[i].calls >= 1 /\ disposables'[i].calls = disposables[i].calls + 1)
            => UNCHANGED <<textSearchProvider, fileSearchProvider, fileIndexProvider,
                           internalFileSearchHandle, internalFileSearchProvider, proxy>>]_vars

\* ---- C13 ----
LiveInternalRegistration ==
    \E i \in 1..Len(disposables) :
        disposables[i].kind = "internal" /\ disposables[i].calls = 0

\* The cache calls the step has added.
NewCacheCalls == SubSeq(cacheCleared', Len(cacheCleared) + 1, Len(cacheCleared'))

\* C13: a $clearCache call forwards the key to the internal provider exactly when an
\* internal registration is live, before the forward to the index manager, and forwards
\* the same key to the index manager exactly once.
C13_ClearCacheForwards ==
    [][cacheCleared' # cacheCleared =>
        LET new == NewCacheCalls
            toInternal == {i \in 1..Len(new) : new[i].target = "internal"}
            toIndex == {i \in 1..Len(new) : new[i].target = "index"}
        IN /\ (toInternal # {}) <=> LiveInternalRegistration
           /\ Cardinality(toIndex) = 1
           /\ \A i \in toInternal, j \in toIndex : i < j
           /\ \A i, j \in 1..Len(new) : new[i].key = new[j].key]_vars

\* ---- C14 ----
\* The resource a transport-safe form stands for.
Intended(c) == [scheme |-> c.scheme, path |-> c.path, fsPath |-> c.path]

FoldersRevived(q, v) ==
    /\ v.hasFolderQueries = q.hasFolderQueries
    /\ Len(v.folderQueries) = Len(q.folderQueries)
    /\ \A i \in 1..Len(q.folderQueries) :
            /\ v.folderQueries[i].folder = Intended(q.folderQueries[i].folder)
            /\ v.folderQueries[i].excludePattern = q.folderQueries[i].excludePattern

\* C14 as stated: the revived query has the raw query's folder queries in order, each
\* folder revived and its other members unchanged, and every other member of the query
\* is the raw query's.
C14_RevivalKeepsAllOtherFields ==
    revival.done =>
        /\ FoldersRevived(revival.raw, revival.revived)
        /\ revival.revived.filePattern = revival.raw.filePattern
        /\ revival.revived.hasExtraFileResources = revival.raw.hasExtraFileResources
        /\ revival.revived.extraFileResources = revival.raw.extraFileResources

\* C14 amended: as above, except that extraFileResources is revived member by member,
\* in order, when it is there.
C14_RevivalPreservesFolderQueries ==
    revival.done =>
        LET q == revival.raw
            v == revival.revived
        IN /\ FoldersRevived(q, v)
           /\ v.filePattern = q.filePattern
           /\ v.hasExtraFileResources = q.hasExtraFileResources
           /\ Len(v.extraFileResources) = Len(q.extraFileResources)
           /\ \A i \in 1..Len(q.extraFileResources) :
                    v.extraFileResources[i] = Intended(q.extraFileResources[i])

\* Two different folder queries and an extra file resource.
C14_Witness ==
    /\ revival.done
    /\ Len(revival.raw.folderQueries) = 2
    /\ revival.raw.folderQueries[1] # revival.raw.folderQueries[2]
    /\ Len(revival.raw.extraFileResources) = 1
    /\ Len(revival.revived.folderQueries) = 2

\* ---- C15 ----
\* The request the step has added.
NewRequest == requests'[Len(requests')]

LiveUnder(handle, kinds) ==
    \E i \in 1..Len(disposables) :
        /\ disposables[i].handle = handle
        /\ disposables[i].calls = 0
        /\ disposables[i].kind \in kinds

\* C15: a file-search request is served by the engine of the kind its handle is
\* registered under at that moment, and by the internal path only while an internal
\* registration under that handle is live.
C15_EngineOfRegisteredKind ==
    [][(Len(requests') = Len(requests) + 1 /\ NewRequest.kind = "file") =>
        /\ \A k \in {"internal", "file", "index"} :
                LiveUnder(NewRequest.handle, {k}) => NewRequest.engine = EngineOfKind(k)
        /\ NewRequest.engine = "internal" => LiveUnder(NewRequest.handle, {"internal"})]_vars

\* ---- C16 ----
\* The event the step has delivered to the listener of request r.
Delivered(r, ev) == requests'[r].events = Append(requests[r].events, ev)

\* C16: on an internal file search that is not yet settled, a success event resolves
\* the request with that event, an error event rejects it with that event, and a match
\* or message event leaves it pending.
C16_TerminalSettlesByClass ==
    [][\A r \in Requests : \A ev \in InternalEvents :
            (InternalStream(r) /\ requests[r].state = "pending" /\ Delivered(r, ev)) =>
                CASE ev.type = "success" ->
                        requests'[r].state = "resolved" /\ requests'[r].result = ev
                  [] ev.type = "error" ->
                        requests'[r].state = "rejected" /\ requests'[r].result = ev
                  [] OTHER ->
                        requests'[r].state = "pending" /\ requests'[r].result = NoResult]_vars

\* A match and a message passed without settling, then an error rejected the request.
C16_Witness ==
    \E r \in Requests :
        /\ InternalStream(r)
        /\ Len(requests[r].events) = 3
        /\ requests[r].events[1].type \in {"match", "array"}
        /\ requests[r].events[2].type = "message"
        /\ requests[r].events[3].type = "error"
        /\ requests[r].state = "rejected"
        /\ requests[r].result = requests[r].events[3]

\* ---- C17 ----
NotMessage(ev) == ev.type # "message"

IsMessage(ev) == ev.type = "message"

RECURSIVE MessagesUpTo(_)
\* The message events fired at the first n requests' listeners.
MessagesUpTo(n) ==
    IF n = 0 THEN 0
    ELSE MessagesUpTo(n - 1)
         + (IF InternalStream(n) THEN Len(SelectSeq(requests[n].events, IsMessage)) ELSE 0)

\* C17: the deliveries and the outcome of an internal file search are those of its
\* event sequence with the message events removed (one delivery per remaining match
\* event, in order; settled by the first remaining terminal event), and each message
\* event has been logged and nothing else.
C17_MessagesOnlyLogged ==
    /\ Len(logService) = MessagesUpTo(Len(requests))
    /\ \A r \in Requests : InternalStream(r) =>
        LET evs == SelectSeq(requests[r].events, NotMessage)
            ms == MatchEvents(evs)
            got == FileMatches(r)
            terms == Terminals(evs)
        IN /\ Len(got) = Len(ms)
           /\ \A i \in 1..Len(ms) : got[i].data = Owed(ms[i])
           /\ terms = {} => requests[r].state = "pending"
           /\ terms # {} =>
                /\ requests[r].result = evs[Min(terms)]
                /\ requests[r].state \in {"resolved", "rejected"}
                /\ requests[r].state = "resolved" <=> evs[Min(terms)].type = "success"

\* A message between a match event and the terminal event.
C17_Witness ==
    \E r \in Requests :
        /\ InternalStream(r)
        /\ Len(requests[r].events) = 3
        /\ IsMatchEvent(requests[r].events[1])
        /\ requests[r].events[2].type = "message"
        /\ requests[r].events[3].type = "success"
        /\ Len(FileMatches(r)) = 1
        /\ requests[r].state = "resolved"
        /\ Len(logService) = 1

\* ---- C18 ----
IsBatchEvent(ev) == ev.type \in {"match", "array", "batch", "progress"}

\* The batches the provider of request r has produced, in order.
Produced(r) == SelectSeq(requests[r].events, IsBatchEvent)

MatchCallName(r) ==
    IF requests[r].kind = "text" THEN "$handleTextMatch" ELSE "$handleFileMatch"

MatchesOf(r) == SelectSeq(proxy, LAMBDA c : IsMatchOf(c, MatchCallName(r), r))

\* C18: the deliveries made under a request's (handle, session), with the call of its
\* kind, are exactly the batches its own provider produced, in production order, and
\* every delivery on the peer belongs to a request in this way.
C18_DeliveriesRoutedToTheirRequest ==
    /\ \A r \in Requests :
            /\ Len(MatchesOf(r)) = Len(Produced(r))
            /\ \A i \in 1..Len(Produced(r)) : MatchesOf(r)[i].data = Owed(Produced(r)[i])
    /\ \A i \in 1..Len(proxy) :
            proxy[i].call \in {"$handleFileMatch", "$handleTextMatch"} =>
                \E r \in Requests : IsMatchOf(proxy[i], MatchCallName(r), r)

\* A file search and a text search in flight whose deliveries interleave.
C18_Witness ==
    \E r1, r2 \in Requests :
        /\ requests[r1].kind = "file" /\ requests[r2].kind = "text"
        /\ requests[r1].handle # requests[r1].session
        /\ Len(MatchesOf(r1)) >= 1 /\ Len(MatchesOf(r2)) >= 1
        /\ proxy[Len(proxy)].call = "$handleFileMatch"
        /\ requests[r1].state = "pending" /\ requests[r2].state = "pending"

\* ---- C19 ----
RegisterCalls ==
    {"$registerTextSearchProvider", "$registerFileSearchProvider", "$registerFileIndexProvider"}

\* The handles the peer has been told of and not been told to retire.
PeerLive ==
    {proxy[i].handle : i \in {n \in 1..Len(proxy) : proxy[n].call \in RegisterCalls}}
        \ {proxy[i].handle : i \in {n \in 1..Len(proxy) : proxy[n].call = "$unregisterProvider"}}

\* The handles a $provide*SearchResults call finds a provider for.
LocalLive ==
    {h \in 0..handlePool : ~Absent(ResolveText(h)) \/ ~Absent(ResolveFile(h))}

CallsFor(calls, h) ==
    Cardinality({n \in 1..Len(proxy) : proxy[n].call \in calls /\ proxy[n].handle = h})

\* C19: the handles announced to the peer and not retired are the handles that locally
\* resolve to a provider; each registration has announced its handle once, and each
\* call of a disposer has retired that registration's handle.
C19_PeerLiveIsLocalLive ==
    /\ PeerLive = LocalLive
    /\ \A i \in 1..Len(disposables) :
        /\ CallsFor(RegisterCalls, disposables[i].handle) = 1
        /\ CallsFor({"$unregisterProvider"}, disposables[i].handle) = disposables[i].calls

\* ---- C20 ----
\* What a request under the registration's handle finds.
ResolvesTo(d) == IF d.kind = "text" THEN ResolveText(d.handle) ELSE ResolveFile(d.handle)

DisposeStep(i) == disposables'[i].calls = disposables[i].calls + 1

\* C20: a step that runs the disposer of one registration leaves the provider every
\* other not-disposed registration's handle resolves to as it was, and leaves the
\* internal slot with the provider $clearCache reaches.
C20_DisposeLeavesOthers ==
    [][\A i \in 1..Len(disposables) : DisposeStep(i) =>
        \A j \in 1..Len(disposables) :
            (j # i /\ disposables[j].calls = 0) =>
                /\ ResolvesTo(disposables[j])' = ResolvesTo(disposables[j])
                /\ (disposables[j].kind = "internal" /\ InInternalSlot(disposables[j].handle))
                        => internalFileSearchProvider' = internalFileSearchProvider]_vars

====
